---- MODULE Spec2Model ----
(***************************************************************************)
(* Model of the factor construction and regression code of StockAnalysis:  *)
(*   src/src/fama_french.py       load_fama_french_factors, calculate_umd, *)
(*                                run_fama_french_regression               *)
(*   src/src/trading_strategies.py  momentum_strategy                      *)
(*                                                                         *)
(* Floating point values are modelled as exact rationals <<n, d>> in       *)
(* lowest terms with d > 0; the missing value (NaN) is <<0, 0>>.  Prices   *)
(* in the model are small positive integers and the cut-offs are dyadic or *)
(* tenths, for which IEEE division and comparison agree with the exact     *)
(* rational ones.                                                          *)
(***************************************************************************)
EXTENDS Integers, Sequences, FiniteSets, TLC

VARIABLES
    closes,       \* the Close matrix handed to the code: rows -> columns -> value
    dates,        \* the monthly period (month ordinal) of each row of closes
    padFill,      \* TRUE when the installed pandas pads in pct_change (pandas < 3)
    csv,          \* data/ff_monthly.csv: [exists, rows: period -> factor -> value]
    umdCall,      \* last call of calculate_umd: its argument, locals and result
    momCall,      \* last call of momentum_strategy: its arguments, locals and result
    ffCall,       \* last call of load_fama_french_factors: its outcome and result
    regCall       \* last call of run_fama_french_regression: locals and outcome

vars == <<closes, dates, padFill, csv, umdCall, momCall, ffCall, regCall>>

----------------------------------------------------------------------------
(* Bounds of the model *)

MaxAssets == 4
MaxMonths == 14
MaxRows == 3
MaxCols == 4
MaxCells == 9
MaxLookback == 2
MaxLag == 1
MaxPositions == 2

(* Constants of the program *)

UmdLagShift == 1
UmdStartShift == 12
PercentScale == 100

----------------------------------------------------------------------------
(* Floating point values as rationals *)

NaN == <<0, 0>>

IsNaN(v) == v[2] = 0

Abs(i) == IF i < 0 THEN -i ELSE i
Min(a, b) == IF a < b THEN a ELSE b
Max(a, b) == IF a > b THEN a ELSE b

RECURSIVE Gcd(_, _)
Gcd(a, b) == IF b = 0 THEN a ELSE Gcd(b, a % b)

Rat(n, d) ==
    LET s == IF d < 0 THEN -1 ELSE 1
        g == Gcd(Abs(n), Abs(d))
    IN  <<(s * n) \div g, (s * d) \div g>>

Num(i) == <<i, 1>>

\* IEEE arithmetic: a missing operand gives a missing result; 0/0 is missing.
\* (x/0 with x # 0 is an infinity; closes are positive, so it does not arise.)
FDiv(a, b) ==
    IF IsNaN(a) \/ IsNaN(b) \/ b[1] = 0 THEN NaN
    ELSE Rat(a[1] * b[2], a[2] * b[1])

FAdd(a, b) ==
    IF IsNaN(a) \/ IsNaN(b) THEN NaN
    ELSE Rat(a[1] * b[2] + b[1] * a[2], a[2] * b[2])

FSub(a, b) ==
    IF IsNaN(a) \/ IsNaN(b) THEN NaN
    ELSE Rat(a[1] * b[2] - b[1] * a[2], a[2] * b[2])

\* Comparisons with a missing operand are False.
FLess(a, b) == ~IsNaN(a) /\ ~IsNaN(b) /\ a[1] * b[2] < b[1] * a[2]
FLeq(a, b) == ~IsNaN(a) /\ ~IsNaN(b) /\ a[1] * b[2] <= b[1] * a[2]
FGeq(a, b) == FLeq(b, a)
FEq(a, b) == ~IsNaN(a) /\ ~IsNaN(b) /\ a[1] * b[2] = b[1] * a[2]

----------------------------------------------------------------------------
(* pandas DataFrame operations used by the code.  A frame is a function    *)
(* from 1..rows to a function from 1..columns to a value.                  *)

NRows(m) == Cardinality(DOMAIN m)
Cols(m) == IF DOMAIN m = {} THEN {} ELSE DOMAIN m[1]

\* A function on 1..n as the sequence of its values (the same function; the
\* frames of the model are held as sequences of rows, each a sequence).
RECURSIVE Take(_, _)
Take(f, n) == IF n = 0 THEN <<>> ELSE Append(Take(f, n - 1), f[n])

AsSeq(f) == Take(f, Cardinality(DOMAIN f))

\* DataFrame.shift(k): row t holds row t-k; the first k rows are missing.
Shift(m, k) ==
    AsSeq([t \in DOMAIN m |->
        AsSeq([a \in Cols(m) |-> IF t - k >= 1 THEN m[t - k][a] ELSE NaN])])

\* DataFrame / DataFrame and DataFrame - scalar, element-wise on aligned labels.
FrameDiv(m1, m2) ==
    AsSeq([t \in DOMAIN m1 |-> AsSeq([a \in Cols(m1) |-> FDiv(m1[t][a], m2[t][a])])])
FrameSubScalar(m, c) ==
    AsSeq([t \in DOMAIN m |-> AsSeq([a \in Cols(m) |-> FSub(m[t][a], c)])])

\* DataFrame.ffill(): a missing entry takes the last valid entry above it.
RECURSIVE LastValid(_, _, _)
LastValid(m, t, a) ==
    IF t < 1 THEN NaN
    ELSE IF ~IsNaN(m[t][a]) THEN m[t][a]
    ELSE LastValid(m, t - 1, a)

FFill(m) == AsSeq([t \in DOMAIN m |-> AsSeq([a \in Cols(m) |-> LastValid(m, t, a)])])

\* DataFrame.pct_change(): data / data.shift(1) - 1, on the padded data when
\* the pandas in use still defaults fill_method='pad'.
PctChange(m, pad) ==
    LET data == IF pad THEN FFill(m) ELSE m
    IN  FrameSubScalar(FrameDiv(data, Shift(data, 1)), Num(1))

\* Series.rank(pct=True) of one row: average rank among the valid entries,
\* divided by the number of valid entries; a missing entry stays missing.
RankRow(row) ==
    LET valid == {a \in DOMAIN row : ~IsNaN(row[a])}
        less(a) == Cardinality({b \in valid : FLess(row[b], row[a])})
        same(a) == Cardinality({b \in valid : FEq(row[b], row[a])})
    IN  AsSeq([a \in DOMAIN row |->
            IF IsNaN(row[a]) THEN NaN
            ELSE Rat(2 * less(a) + same(a) + 1, 2 * Cardinality(valid))])

\* DataFrame.rank(axis=1, pct=True)
RankPct(m) == AsSeq([t \in DOMAIN m |-> RankRow(m[t])])

\* DataFrame.where(mask): the value where the mask is True, missing elsewhere.
Where(m, mask) ==
    AsSeq([t \in DOMAIN m |->
        AsSeq([a \in Cols(m) |-> IF mask[t][a] THEN m[t][a] ELSE NaN])])

RECURSIVE SumOver(_, _)
SumOver(row, S) ==
    IF S = {} THEN Num(0)
    ELSE LET a == CHOOSE x \in S : TRUE
         IN  FAdd(row[a], SumOver(row, S \ {a}))

\* Series.mean() with skipna: the mean of the valid entries, missing if none.
MeanRow(row) ==
    LET valid == {a \in DOMAIN row : ~IsNaN(row[a])}
    IN  IF valid = {} THEN NaN
        ELSE FDiv(SumOver(row, valid), Num(Cardinality(valid)))

\* DataFrame.mean(axis=1)
MeanAxis1(m) == AsSeq([t \in DOMAIN m |-> MeanRow(m[t])])

\* DataFrame.resample('ME').last(): one row per calendar month from the first
\* to the last observed month; each column takes its last valid observation
\* of the month, and is missing when the month holds none.
RECURSIVE LastValidIn(_, _, _, _, _)
LastValidIn(m, ds, r, period, a) ==
    IF r < 1 THEN NaN
    ELSE IF ds[r] = period /\ ~IsNaN(m[r][a]) THEN m[r][a]
    ELSE LastValidIn(m, ds, r - 1, period, a)

ResampleLast(m, ds) ==
    IF DOMAIN m = {} THEN m
    ELSE AsSeq([i \in 1..(ds[NRows(m)] - ds[1] + 1) |->
            AsSeq([a \in Cols(m) |-> LastValidIn(m, ds, NRows(m), ds[1] + i - 1, a)])])

\* The month-end index of the resampled frame, as monthly periods.
ResampleIndex(m, ds) ==
    IF DOMAIN m = {} THEN <<>>
    ELSE AsSeq([i \in 1..(ds[NRows(m)] - ds[1] + 1) |-> ds[1] + i - 1])

----------------------------------------------------------------------------
(* fama_french.py: calculate_umd *)

\* mom_score = (monthly_closes.shift(1) / monthly_closes.shift(12)) - 1
UmdMomScore(monthly_closes) ==
    FrameSubScalar(
        FrameDiv(Shift(monthly_closes, UmdLagShift), Shift(monthly_closes, UmdStartShift)),
        Num(1))

\* winners_mask = (ranks >= (1 - x_percent))
WinnersMask(ranks, x_percent) ==
    AsSeq([t \in DOMAIN ranks |->
        AsSeq([a \in Cols(ranks) |-> FGeq(ranks[t][a], FSub(Num(1), x_percent))])])

\* A losers mask that counts a missing rank as 0 (ranks.fillna(0) <= x_percent)
LosersMaskFillZero(ranks, x_percent) ==
    AsSeq([t \in DOMAIN ranks |->
        AsSeq([a \in Cols(ranks) |->
            FLeq(IF IsNaN(ranks[t][a]) THEN Num(0) ELSE ranks[t][a], x_percent)])])

\* losers_mask = (ranks <= x_percent)
LosersMask(ranks, x_percent) ==
    AsSeq([t \in DOMAIN ranks |-> AsSeq([a \in Cols(ranks) |-> FLeq(ranks[t][a], x_percent)])])

\* umd_series.to_frame(name='UMD').dropna() with its index as monthly periods
DropNaFrame(series, index) ==
    SelectSeq(AsSeq([t \in DOMAIN series |-> [period |-> index[t], UMD |-> series[t]]]),
              LAMBDA r : ~IsNaN(r.UMD))

CalculateUmd(stocks_close, ds, x_percent, pad) ==
    LET monthly_closes == ResampleLast(stocks_close, ds)
        monthly_returns == PctChange(monthly_closes, pad)
        mom_score == UmdMomScore(monthly_closes)
        ranks == RankPct(mom_score)
        winners_mask == WinnersMask(ranks, x_percent)
        losers_mask == LosersMask(ranks, x_percent)
        win_returns == MeanAxis1(Where(monthly_returns, winners_mask))
        lose_returns == MeanAxis1(Where(monthly_returns, losers_mask))
        umd_series ==
            AsSeq([t \in DOMAIN monthly_closes |-> FSub(win_returns[t], lose_returns[t])])
    IN  [x_percent |-> x_percent,
         monthly_closes |-> monthly_closes,
         monthly_returns |-> monthly_returns,
         mom_score |-> mom_score,
         ranks |-> ranks,
         winners_mask |-> winners_mask,
         losers_mask |-> losers_mask,
         win_returns |-> win_returns,
         lose_returns |-> lose_returns,
         umd_series |-> umd_series,
         index |-> ResampleIndex(stocks_close, ds),
         umd_df |-> DropNaFrame(umd_series, ResampleIndex(stocks_close, ds))]

----------------------------------------------------------------------------
(* Inputs of the model *)

\* A column of a monthly Close matrix: `before` up to month step-1 and
\* `after` from month `step` on.  A missing `before` is an asset listed late,
\* a missing `after` an asset delisted.
ProfileList ==
    << [before |-> Num(1), step |-> 1,  after |-> Num(1)],
       [before |-> Num(2), step |-> 2,  after |-> Num(1)],
       [before |-> Num(1), step |-> 13, after |-> Num(2)],
       [before |-> Num(1), step |-> 13, after |-> Num(4)],
       [before |-> Num(2), step |-> 13, after |-> Num(1)],
       [before |-> Num(1), step |-> 14, after |-> Num(2)],
       [before |-> NaN,    step |-> 2,  after |-> Num(1)],
       [before |-> Num(1), step |-> 14, after |-> NaN],
       [before |-> Num(1), step |-> 12, after |-> Num(2)] >>

ProfileClose(p, t) == IF t < p.step THEN p.before ELSE p.after

\* calculate_umd ranks and averages across columns, so the order of the
\* columns does not matter to it: the panels list their columns by profile.
SortedChoices(n) ==
    {c \in [1..n -> 1..Len(ProfileList)] : \A i \in 1..(n - 1) : c[i] <= c[i + 1]}

MonthlyPanel(n, months, c) ==
    [t \in 1..months |-> [a \in 1..n |-> ProfileClose(ProfileList[c[a]], t)]]

\* x_percent: the default 0.3, a smaller cut-off and the largest one, 0.5
XPercents == {<<1, 4>>, <<3, 10>>, <<1, 2>>}

NotCalled == [called |-> FALSE]
NoCsv == [exists |-> FALSE]

----------------------------------------------------------------------------
(* A caller of calculate_umd on a monthly panel *)

InitUmd ==
    /\ \E n \in 1..MaxAssets, months \in UmdStartShift..MaxMonths :
         \E c \in SortedChoices(n) :
            /\ closes = MonthlyPanel(n, months, c)
            /\ dates = [t \in 1..months |-> t]
    /\ padFill \in BOOLEAN
    /\ csv = NoCsv
    /\ umdCall = NotCalled
    /\ momCall = NotCalled
    /\ ffCall = NotCalled
    /\ regCall = NotCalled

\* calculate_umd is a pure function of its arguments: one call per panel.
CallCalculateUmd ==
    /\ ~umdCall.called
    /\ \E x \in XPercents :
         umdCall' = [called |-> TRUE, ret |-> CalculateUmd(closes, dates, x, padFill)]
    /\ UNCHANGED <<closes, dates, padFill, csv, momCall, ffCall, regCall>>

NextUmd == CallCalculateUmd

SpecUmd == InitUmd /\ [][NextUmd]_vars

----------------------------------------------------------------------------
(* trading_strategies.py: momentum_strategy *)

\* mom_score = (closes.shift(lag) / closes.shift(lag + lookback)) - 1
MomScore(m, lookback, lag) ==
    FrameSubScalar(FrameDiv(Shift(m, lag), Shift(m, lag + lookback)), Num(1))

\* Series.sort_values(ascending=False): the valid entries by value descending,
\* then the missing entries in their original order (na_position='last').
\* The default kind='quicksort' is not a stable sort, so the order of equal
\* values is whatever the numpy build produces: any order of the ties.
SortOrders(row) ==
    LET cols == DOMAIN row
        n == Cardinality(cols)
    IN  {s \in [1..n -> cols] :
            /\ \A i, j \in 1..n : i # j => s[i] # s[j]
            /\ \A i, j \in 1..n : i < j =>
                 \/ IsNaN(row[s[j]]) /\ ~IsNaN(row[s[i]])
                 \/ IsNaN(row[s[j]]) /\ IsNaN(row[s[i]]) /\ s[i] < s[j]
                 \/ FGeq(row[s[i]], row[s[j]])}

\* Series.head(k) and Series.tail(k) of a sorted index
SeriesHead(s, k) == SubSeq(s, 1, Min(k, Len(s)))
SeriesTail(s, k) == SubSeq(s, Max(1, Len(s) - k + 1), Len(s))

\* The outcomes of momentum_strategy(stocks_df, lookback, lag, num_stocks):
\* iloc[-1] raises IndexError on a frame without rows; otherwise the last
\* row is sorted and its head and tail are returned.
MomentumStrategy(m, lookback, lag, num_stocks) ==
    LET mom_score == MomScore(m, lookback, lag)
        all_daily_ranks == RankPct(mom_score)
        last == NRows(m)
    IN  IF last = 0
        THEN {[called |-> TRUE, lookback |-> lookback, lag |-> lag,
               num_stocks |-> num_stocks, outcome |-> "IndexError"]}
        ELSE {[called |-> TRUE, lookback |-> lookback, lag |-> lag,
               num_stocks |-> num_stocks, outcome |-> "returned",
               all_daily_ranks |-> all_daily_ranks,
               row |-> last,
               current_ranks |-> s,
               long_positions |-> SeriesHead(s, num_stocks),
               short_positions |-> SeriesTail(s, num_stocks)] :
              s \in SortOrders(all_daily_ranks[last])}

----------------------------------------------------------------------------
(* A caller of momentum_strategy on a panel of closes *)

MomPrices == {NaN, Num(1), Num(2)}

InitMom ==
    /\ \E rows \in 0..MaxRows, n \in 1..MaxCols :
         /\ rows * n <= MaxCells
         /\ closes \in [1..rows -> [1..n -> MomPrices]]
         /\ dates = [t \in 1..rows |-> t]
    /\ padFill = FALSE
    /\ csv = NoCsv
    /\ umdCall = NotCalled
    /\ momCall = NotCalled
    /\ ffCall = NotCalled
    /\ regCall = NotCalled

\* momentum_strategy is a pure function of its arguments: one call per panel.
CallMomentumStrategy ==
    /\ ~momCall.called
    /\ \E lookback \in 1..MaxLookback, lag \in 0..MaxLag, num_stocks \in 1..MaxPositions :
         momCall' \in MomentumStrategy(closes, lookback, lag, num_stocks)
    /\ UNCHANGED <<closes, dates, padFill, csv, umdCall, ffCall, regCall>>

NextMom == CallMomentumStrategy

SpecMom == InitMom /\ [][NextMom]_vars

----------------------------------------------------------------------------
(* fama_french.py: load_fama_french_factors, run_fama_french_regression *)

FactorCols == {"Mkt-RF", "SMB", "HML", "RF"}
Regressors == {"Mkt-RF", "SMB", "HML"}

\* pd.to_datetime(index, format='%Y%m').to_period('M'): the month ordinal of
\* a YYYYMM index entry.
ToPeriod(yyyymm) == (yyyymm \div 100) * 12 + (yyyymm % 100) - 1

\* A loader that divides a table already in decimals by 100 again
ScalePercentTwice(rows) ==
    AsSeq([i \in DOMAIN rows |->
              [c \in FactorCols |->
                  FDiv(FDiv(rows[i][c], Num(PercentScale)), Num(PercentScale))]])

\* ff = ff / 100.0
ScalePercent(rows) ==
    AsSeq([i \in DOMAIN rows |->
              [c \in FactorCols |-> FDiv(rows[i][c], Num(PercentScale))]])

\* load_fama_french_factors(): reads the file anew on every call.
LoadFamaFrenchFactors(file) ==
    IF ~file.exists
    THEN [called |-> TRUE, outcome |-> "FileNotFoundError"]
    ELSE [called |-> TRUE, outcome |-> "returned",
          index |-> AsSeq([i \in DOMAIN file.index |-> ToPeriod(file.index[i])]),
          rows |-> ScalePercent(file.rows)]

\* pd.merge(umd, ff, left_index=True, right_index=True, how='inner'): the
\* rows of umd whose period is in the index of ff, with the columns of both.
RowOf(ff, period) == CHOOSE i \in DOMAIN ff.index : ff.index[i] = period

MergeInner(umd, ff) ==
    LET both == SelectSeq(umd, LAMBDA r : \E i \in DOMAIN ff.index : ff.index[i] = r.period)
    IN  AsSeq([k \in DOMAIN both |->
                  [period |-> both[k].period, UMD |-> both[k].UMD,
                   factors |-> ff.rows[RowOf(ff, both[k].period)]]])

\* The outcomes of run_fama_french_regression(stocks_df, x_percent).  The
\* function merges and fits without looking at the number of merged rows;
\* on a frame without rows statsmodels either raises its own ValueError or
\* returns a degenerate fit, depending on the library version.
RunFamaFrenchRegression(stocks_close, ds, x_percent, pad, file) ==
    LET umd == CalculateUmd(stocks_close, ds, x_percent, pad).umd_df
        ff == LoadFamaFrenchFactors(file)
        df == MergeInner(umd, ff)
        Y == AsSeq([k \in DOMAIN df |-> df[k].UMD])
        X == AsSeq([k \in DOMAIN df |-> [c \in Regressors |-> df[k].factors[c]]])
    IN  IF ff.outcome = "FileNotFoundError"
        THEN {[called |-> TRUE, x_percent |-> x_percent, outcome |-> "FileNotFoundError"]}
        ELSE {[called |-> TRUE, x_percent |-> x_percent, outcome |-> o,
               umd |-> umd, ff |-> ff, df |-> df, Y |-> Y, X |-> X] :
              o \in IF Len(df) = 0 THEN {"ValueError", "fitted"} ELSE {"fitted"}}

----------------------------------------------------------------------------
(* A caller of the loader and of the regression *)

CsvIndexes == {<<201012, 201101>>, <<201101, 201102>>, <<201501, 201502>>}

\* Rows of the file, in percent
CsvRowChoices ==
    { [c \in FactorCols |->
          CASE c = "Mkt-RF" -> Rat(5, 2) [] c = "SMB" -> Num(-1)
            [] c = "HML" -> Num(0) [] OTHER -> Rat(1, 100)],
      [c \in FactorCols |->
          CASE c = "Mkt-RF" -> Num(-3) [] c = "SMB" -> Rat(1, 2)
            [] c = "HML" -> Num(100) [] OTHER -> Num(0)] }

CsvFiles ==
    {NoCsv} \cup
    {[exists |-> TRUE, index |-> ix, rows |-> rw] :
        ix \in CsvIndexes, rw \in {r \in [1..2 -> CsvRowChoices] : r[1] # r[2]}}

RegFirstMonth == ToPeriod(201001)

\* The panels of the regression runs: a flat column and one other column,
\* from January 2010 on, one row per month; the download may end with a
\* second row for its last month (the bar of the running month).
InitReg ==
    /\ \E months \in UmdStartShift..MaxMonths, extra \in {0, 1} :
         \E c \in {k \in SortedChoices(2) : k[1] = 1} :
            /\ closes = MonthlyPanel(2, months + extra, c)
            /\ dates = [t \in 1..(months + extra) |-> RegFirstMonth + Min(t, months) - 1]
    /\ padFill \in BOOLEAN
    /\ csv \in CsvFiles
    /\ umdCall = NotCalled
    /\ momCall = NotCalled
    /\ ffCall = NotCalled
    /\ regCall = NotCalled

CallLoadFamaFrenchFactors ==
    /\ ffCall' = LoadFamaFrenchFactors(csv)
    /\ UNCHANGED <<closes, dates, padFill, csv, umdCall, momCall, regCall>>

CallRunFamaFrenchRegression ==
    /\ \E x \in XPercents :
         regCall' \in RunFamaFrenchRegression(closes, dates, x, padFill, csv)
    /\ UNCHANGED <<closes, dates, padFill, csv, umdCall, momCall, ffCall>>

NextReg == CallLoadFamaFrenchFactors \/ CallRunFamaFrenchRegression

SpecReg == InitReg /\ [][NextReg]_vars

----------------------------------------------------------------------------
(* The three callers together *)

Init == InitUmd \/ InitMom \/ InitReg

Next ==
    \/ CallCalculateUmd
    \/ CallMomentumStrategy
    \/ CallLoadFamaFrenchFactors
    \/ CallRunFamaFrenchRegression

Spec == Init /\ [][Next]_vars

----------------------------------------------------------------------------
(* Properties of calculate_umd, checked under SpecUmd *)

Half == <<1, 2>>

ValidIn(row) == {a \in DOMAIN row : ~IsNaN(row[a])}

PairwiseDistinct(row) ==
    \A a, b \in DOMAIN row : a # b => ~IsNaN(row[a]) /\ ~IsNaN(row[b]) /\ ~FEq(row[a], row[b])

\* The k highest and the k lowest valid entries of a row
TopSet(row, k) ==
    {a \in ValidIn(row) : Cardinality({b \in ValidIn(row) : FLess(row[a], row[b])}) < k}
BottomSet(row, k) ==
    {a \in ValidIn(row) : Cardinality({b \in ValidIn(row) : FLess(row[b], row[a])}) < k}

MaskSet(maskRow) == {a \in DOMAIN maskRow : maskRow[a]}

\* The mean of the defined entries of a row over the columns in S
MeanOver(row, S) == MeanRow([a \in DOMAIN row |-> IF a \in S THEN row[a] ELSE NaN])

UmdRowsAt(ret, period) == {k \in DOMAIN ret.umd_df : ret.umd_df[k].period = period}

\* C1: the momentum score of every asset at every monthly row t is
\* close[t-1] / close[t-13] - 1 (lookback 12, lag 1, as momentum_strategy
\* computes it), and every row with fewer than 13 preceding rows has an
\* entirely missing score.
C1_ScoreIsThirteenMonthWindow ==
    umdCall.called =>
        LET mc == umdCall.ret.monthly_closes
        IN  /\ umdCall.ret.mom_score = MomScore(mc, 12, 1)
            /\ \A t \in DOMAIN mc : t - 1 < 13 =>
                 \A a \in Cols(mc) : IsNaN(umdCall.ret.mom_score[t][a])

\* C2: a panel of 14 consecutive months of fully populated closes for 4
\* assets with pairwise distinct momentum scores, with x_percent = 0.5, gives
\* exactly one UMD row, and that row is month 14.
C2_FourteenMonthPanel ==
    umdCall.called /\ umdCall.ret.x_percent = Half =>
        LET r == umdCall.ret
            mc == r.monthly_closes
        IN  ( /\ NRows(mc) = 14
              /\ Cardinality(Cols(mc)) = 4
              /\ \A t \in DOMAIN mc : \A a \in Cols(mc) : ~IsNaN(mc[t][a])
              /\ PairwiseDistinct(r.mom_score[14]) )
            => /\ Len(r.umd_df) = 1
               /\ r.umd_df[1].period = r.index[14]

\* A period of 4 assets, all scored, the scores pairwise distinct, under
\* x_percent = 0.5
FourDistinct(r, t) ==
    /\ r.x_percent = Half
    /\ Cardinality(Cols(r.mom_score)) = 4
    /\ PairwiseDistinct(r.mom_score[t])

\* C3: with 4 assets of pairwise distinct scores and x_percent =
\* 0.5 the winners are exactly the 2 highest-scoring assets, the losers
\* exactly the 2 lowest, and the UMD value of the period is the mean return
\* of the 2 highest minus the mean return of the 2 lowest.
C3_TwoVersusTwo ==
    umdCall.called =>
        LET r == umdCall.ret
        IN  \A t \in DOMAIN r.mom_score : FourDistinct(r, t) =>
              /\ MaskSet(r.winners_mask[t]) = TopSet(r.mom_score[t], 2)
              /\ MaskSet(r.losers_mask[t]) = BottomSet(r.mom_score[t], 2)
              /\ r.umd_series[t] =
                   FSub(MeanOver(r.monthly_returns[t], TopSet(r.mom_score[t], 2)),
                        MeanOver(r.monthly_returns[t], BottomSet(r.mom_score[t], 2)))

\* C4: every period in which all assets have the same valid momentum score
\* and defined monthly returns has a UMD row, and its value is 0.
C4_EqualScoresGiveZero ==
    umdCall.called =>
        LET r == umdCall.ret
        IN  \A t \in DOMAIN r.mom_score :
              ( /\ \A a \in Cols(r.mom_score) :
                     /\ ~IsNaN(r.mom_score[t][a])
                     /\ ~IsNaN(r.monthly_returns[t][a])
                /\ \A a, b \in Cols(r.mom_score) : FEq(r.mom_score[t][a], r.mom_score[t][b]) )
              => /\ UmdRowsAt(r, r.index[t]) # {}
                 /\ \A k \in UmdRowsAt(r, r.index[t]) : r.umd_df[k].UMD = Num(0)

\* C10: for x_percent below 0.5 no asset is in both masks; at x_percent =
\* 0.5 the masks overlap exactly on the assets of percentile rank 0.5; an
\* asset with a missing rank is in neither mask.
C10_MaskOverlap ==
    umdCall.called =>
        LET r == umdCall.ret
        IN  \A t \in DOMAIN r.ranks : \A a \in Cols(r.ranks) :
              LET both == r.winners_mask[t][a] /\ r.losers_mask[t][a]
              IN  /\ FLess(r.x_percent, Half) => ~both
                  /\ r.x_percent = Half => (both <=> FEq(r.ranks[t][a], Half))
                  /\ IsNaN(r.ranks[t][a]) =>
                       ~r.winners_mask[t][a] /\ ~r.losers_mask[t][a]

C10_Witness ==
    /\ umdCall.called
    /\ umdCall.ret.x_percent = Half
    /\ \E t \in DOMAIN umdCall.ret.ranks : \E a, b, c \in Cols(umdCall.ret.ranks) :
         /\ umdCall.ret.winners_mask[t][a] /\ umdCall.ret.losers_mask[t][a]
         /\ IsNaN(umdCall.ret.ranks[t][b])
         /\ umdCall.ret.winners_mask[t][c] /\ ~umdCall.ret.losers_mask[t][c]

----------------------------------------------------------------------------
(* Properties of momentum_strategy, checked under SpecMom *)

\* The percentile ranks of the panel under the arguments of the call
MomRanks == RankPct(MomScore(closes, momCall.lookback, momCall.lag))

\* The rows with at least 2 * num_stocks ranked entries
QualifyingRows == {t \in DOMAIN closes : Cardinality(ValidIn(MomRanks[t])) >= 2 * momCall.num_stocks}

SetMax(S) == CHOOSE x \in S : \A y \in S : y <= x

Range(s) == {s[i] : i \in DOMAIN s}

\* C5: the selection is made from the most recent row with at least
\* 2 * num_stocks ranked entries, and the call fails with
\* InsufficientDataError when the panel has no such row.
C5_SelectsQualifyingRow ==
    momCall.called =>
        IF QualifyingRows = {}
        THEN momCall.outcome = "InsufficientDataError"
        ELSE momCall.outcome = "returned" /\ momCall.row = SetMax(QualifyingRows)

\* C6: when the selected row has exactly 2 * num_stocks ranked assets (and
\* any number of unranked ones), longs and shorts are disjoint, each of size
\* num_stocks, and their union is the set of ranked assets.
C6_ExactPartition ==
    (momCall.called /\ momCall.outcome = "returned") =>
        LET ranked == ValidIn(momCall.all_daily_ranks[momCall.row])
            longs == Range(momCall.long_positions)
            shorts == Range(momCall.short_positions)
        IN  Cardinality(ranked) = 2 * momCall.num_stocks =>
              /\ longs \cap shorts = {}
              /\ Cardinality(longs) = momCall.num_stocks
              /\ Cardinality(shorts) = momCall.num_stocks
              /\ longs \cup shorts = ranked

\* A list of assets runs by rank descending (or ascending), assets of equal
\* rank by identifier ascending
ListedByRank(row, s, descending) ==
    \A i, j \in DOMAIN s : i < j =>
        \/ IF descending THEN FLess(row[s[j]], row[s[i]]) ELSE FLess(row[s[i]], row[s[j]])
        \/ FEq(row[s[i]], row[s[j]]) /\ s[i] < s[j]

\* C9: longs are the top num_stocks assets listed by rank descending, shorts
\* the bottom num_stocks assets listed by rank ascending, assets of equal
\* rank by identifier ascending.
C9_DeterministicOrder ==
    (momCall.called /\ momCall.outcome = "returned") =>
        LET row == momCall.all_daily_ranks[momCall.row]
            ranked == ValidIn(row)
            longs == momCall.long_positions
            shorts == momCall.short_positions
        IN  Cardinality(ranked) >= 2 * momCall.num_stocks =>
              /\ Len(longs) = momCall.num_stocks /\ Len(shorts) = momCall.num_stocks
              /\ \A a \in Range(longs) : \A b \in ranked \ Range(longs) : FGeq(row[a], row[b])
              /\ \A a \in Range(shorts) : \A b \in ranked \ Range(shorts) : FLeq(row[a], row[b])
              /\ ListedByRank(row, longs, TRUE)
              /\ ListedByRank(row, shorts, FALSE)

----------------------------------------------------------------------------
(* Properties of the loader and the regression, checked under SpecReg *)

UmdPeriods(r) == {r.umd[k].period : k \in DOMAIN r.umd}
FactorPeriods(file) == {ToPeriod(file.index[i]) : i \in DOMAIN file.index}

\* The value of the file, in percent, for a period and a factor
SourceValue(file, period, c) ==
    file.rows[CHOOSE i \in DOMAIN file.index : ToPeriod(file.index[i]) = period][c]

Times100(v) == IF IsNaN(v) THEN NaN ELSE Rat(v[1] * 100, v[2])

\* C7: the regression fails with EmptyOverlapError whenever the UMD series
\* and the factor table share no monthly period.
C7_EmptyOverlapRaises ==
    (regCall.called /\ csv.exists) =>
        (UmdPeriods(regCall) \cap FactorPeriods(csv) = {}
            => regCall.outcome = "EmptyOverlapError")

\* C8: after any sequence of calls, every factor value the loader returned
\* and every factor value used as a regressor is the value of the file
\* divided by 100 exactly once, and the regression uses the loaded values as
\* they are.
C8_DividedOnce ==
    /\ (ffCall.called /\ ffCall.outcome = "returned") =>
          \A i \in DOMAIN ffCall.rows : \A c \in FactorCols :
              Times100(ffCall.rows[i][c]) = SourceValue(csv, ffCall.index[i], c)
    /\ (regCall.called /\ regCall.outcome # "FileNotFoundError") =>
          \A k \in DOMAIN regCall.X : \A c \in Regressors :
              /\ Times100(regCall.X[k][c]) = SourceValue(csv, regCall.df[k].period, c)
              /\ regCall.X[k][c] = regCall.ff.rows[RowOf(regCall.ff, regCall.df[k].period)][c]

C8_Witness ==
    /\ ffCall.called /\ ffCall.outcome = "returned"
    /\ regCall.called /\ regCall.outcome = "fitted"
    /\ Len(regCall.X) = 2
    /\ \E k \in DOMAIN regCall.X : regCall.X[k]["Mkt-RF"] = Rat(1, 40)

====
